---- MODULE Spec2Model ----
(***************************************************************************)
(* A state-machine model of the multi-language identification and          *)
(* edit/save logic of src/src/index.tsx (the React component App).         *)
(*                                                                         *)
(* Every React state cell (useState) is a variable that keeps the name it  *)
(* has in the source.  One action models one synchronous segment of a      *)
(* handler: React applies all the set-state calls of a segment before the  *)
(* next event is handled, so a segment is atomic.  An async handler        *)
(* (handleIdentify, handleQuickSave, resizeImage) is cut at its awaits;    *)
(* the values it closed over when it started are kept in identifyRun,      *)
(* saveCall and decoding.                                                  *)
(*                                                                         *)
(* JavaScript objects are records whose DOMAIN is the set of keys that are *)
(* present, so "undefined" is a key that is missing.  null is Null for     *)
(* strings, NoFile for the file and NoPreview for the preview URL.         *)
(*                                                                         *)
(* Left out: isMobile, isLanguageDropdownOpen and imageHash, which only    *)
(* decide layout and are read by no handler modelled here.                 *)
(***************************************************************************)
EXTENDS Integers, Sequences, FiniteSets, TLC

VARIABLES
    file,               \* useState<File | null>
    previewUrl,         \* useState<string | null>
    selectedLanguages,  \* useState<string[]>
    activeTab,          \* useState<string>
    languageResults,    \* useState<{[key]: LanguageResult}>
    commonData,         \* shared metadata
    error,              \* global error slot
    isLoading,          \* global loading flag
    originalResults,    \* snapshot of languageResults
    originalCommonData, \* snapshot of commonData
    isSaving,
    saveMessage,
    isEditing,          \* {[key]: boolean}
    saveStatus,         \* {[key]: 'unsaved' | 'saved'}
    isDatabaseView,     \* {[key]: boolean}
    hasExistingData,    \* {[key]: boolean}
    identifyRun,        \* the handleIdentify call in flight (its closure)
    saveCall,           \* the handleQuickSave call in flight (its closure)
    decoding,           \* files whose resizeImage callback has not fired
    uploads,            \* number of files accepted so far (names the next file)
    events,             \* number of user actions that were counted so far
    limit,              \* the number of counted user actions of this behaviour
    lastSaved,          \* history: per tab, the fields of its last successful save
    part_000            \* the state cells of the App of part_000 (one language)

vars == <<file, previewUrl, selectedLanguages, activeTab, languageResults,
          commonData, error, isLoading, originalResults, originalCommonData,
          isSaving, saveMessage, isEditing, saveStatus, isDatabaseView,
          hasExistingData, identifyRun, saveCall, decoding, uploads, events,
          limit, lastSaved, part_000>>

-----------------------------------------------------------------------------
(* Bounds of the model.                                                    *)

\* The number of user actions in one behaviour, per specification: every
\* click, pick and keystroke is counted but for switching tabs.  The replies of
\* the network and the callbacks of the browser are not counted.
MaxEvents == 4
MaxIdentifyEvents == 4
MaxEditEvents == 6
MaxIntakeEvents == 3
MaxResizeEvents == 3
MaxPart000Events == 4

-----------------------------------------------------------------------------
(* Values.                                                                 *)

Null == "<null>"
\* A File is the image it shows, whether it is the resized copy, its declared
\* media type and the width and height of the picture it holds.
NoFile == [img |-> 0, resized |-> FALSE, type |-> "", width |-> 0, height |-> 0]
NoPreview == 0

\* The selectable languages (two of the entries of the source's list).
languageOptions == {"Hindi", "French"}

\* What the user types into a field, the category input and the tags input.
TypedText == "typed"
TypedTags == <<"typed", "tags">>

\* The three editable keys of a LanguageResult.
EditableFields == {"object_name", "object_description", "object_hint"}

EmptyDict == [k \in {} |-> TRUE]

\* obj[key], with a default when the key is missing (JS: obj[key] || dflt for
\* a missing or empty value).
OrElse(obj, key, dflt) ==
    IF key \in DOMAIN obj /\ obj[key] # "" THEN obj[key] ELSE dflt

\* JS truthiness of a string-valued key.
Truthy(obj, key) == key \in DOMAIN obj /\ obj[key] # ""

\* JS truthiness of dict[key] for a dictionary of booleans.
Flag(dict, key) == key \in DOMAIN dict /\ dict[key]

\* { ...dict, [key]: value }
Put(dict, key, value) ==
    [k \in DOMAIN dict \cup {key} |-> IF k = key THEN value ELSE dict[k]]

\* delete dict[key]
Delete(dict, key) == [k \in DOMAIN dict \ {key} |-> dict[k]]

\* prev.filter(lang => lang !== language)
Without(seq, language) == SelectSeq(seq, LAMBDA l : l # language)

Range(seq) == {seq[i] : i \in 1..Len(seq)}

-----------------------------------------------------------------------------
(* The identification service, seen from the client.                       *)

\* The text the service returns for one field of one language for one image
\* (the resized copy shows the same object as the file it was made of).
Text(kind, language, image) ==
    kind \o ":" \o language \o ":" \o ToString(image.img)

\* Shapes of a successful response: no existing data, existing data for the
\* language, existing data for the English base name only.
Shapes == {"fresh", "known", "known_en"}

\* The JSON body of a successful identify-object response.
ApiResponse(language, image, shape) ==
    LET base == [object_name_en |-> Text("name_en", "English", image),
                 object_name_translated |-> Text("name", language, image),
                 object_description |-> Text("description", language, image),
                 object_hint |-> Text("hint", language, image),
                 object_category |-> Text("category", "English", image),
                 tags |-> <<Text("tag", "English", image)>>]
        known == [existing_object_name |-> Text("db_name", language, image),
                  existing_object_description |-> Text("db_description", language, image),
                  existing_object_hint |-> Text("db_hint", language, image),
                  existing_object_name_en |-> Text("db_name_en", "English", image),
                  existing_object_category |-> Text("db_category", "English", image),
                  existing_object_tags |-> <<Text("db_tag", "English", image)>>]
        known_en == [existing_object_name_en |-> Text("db_name_en", "English", image)]
        extra == CASE shape = "fresh" -> EmptyDict
                   [] shape = "known" -> known
                   [] shape = "known_en" -> known_en
    IN  [k \in DOMAIN base \cup DOMAIN extra |->
            IF k \in DOMAIN base THEN base[k] ELSE extra[k]]

\* Ways a request can fail: a non-2xx reply, or fetch/json rejecting.
Failures == {"http", "network"}

\* The message of the Error thrown for a failed identify request.
IdentifyErrorMessage(language, failure) ==
    IF failure = "http" THEN language \o " API Error: Bad Request"
    ELSE "Failed to fetch"

-----------------------------------------------------------------------------
(* Records built by handleIdentify.                                        *)

EmptyCommonData ==
    [object_category |-> "", tags |-> <<>>, object_name_en_base |-> "",
     existing_object_category |-> "", existing_tags |-> <<>>,
     existing_object_name_en_base |-> ""]

\* The three-key object handleIdentify resets commonData to, which is also
\* the initial originalCommonData.
BareCommonData ==
    [object_category |-> "", tags |-> <<>>, object_name_en_base |-> ""]

\* data.tags || []
TagsOf(data, key) == IF key \in DOMAIN data THEN data[key] ELSE <<>>

LoadingResult ==
    [object_name |-> "", object_description |-> "", object_hint |-> "",
     isLoading |-> TRUE]

\* The LanguageResult made of a successful response.
SuccessResult(data) ==
    [object_name |-> OrElse(data, "object_name_translated", ""),
     object_description |-> OrElse(data, "object_description", ""),
     object_hint |-> OrElse(data, "object_hint", ""),
     isLoading |-> FALSE,
     existing_object_name |-> OrElse(data, "existing_object_name", ""),
     existing_object_description |-> OrElse(data, "existing_object_description", ""),
     existing_object_hint |-> OrElse(data, "existing_object_hint", "")]

\* FailureResult without the error key: a failed language would look like a
\* language for which the service returned nothing.
FailureResult_NoError(message) ==
    [object_name |-> "", object_description |-> "", object_hint |-> "",
     isLoading |-> FALSE]

\* The LanguageResult made in the catch of one language's request.
FailureResult(message) ==
    [object_name |-> "", object_description |-> "", object_hint |-> "",
     isLoading |-> FALSE, error |-> message]

\* commonData (and originalCommonData) made of the English response.
CommonDataOf(englishData) ==
    [object_name_en_base |-> OrElse(englishData, "object_name_en", ""),
     object_category |-> OrElse(englishData, "object_category", ""),
     tags |-> TagsOf(englishData, "tags"),
     existing_object_category |-> OrElse(englishData, "existing_object_category", ""),
     existing_tags |-> TagsOf(englishData, "existing_object_tags"),
     existing_object_name_en_base |-> OrElse(englishData, "existing_object_name_en", "")]

\* hasEnglishExistingData looking at the three fields of the tab only.
hasEnglishExistingData_ThreeFields(englishData) ==
    \/ Truthy(englishData, "existing_object_name")
    \/ Truthy(englishData, "existing_object_description")
    \/ Truthy(englishData, "existing_object_hint")

\* hasEnglishExistingData: the flag of the English tab.
hasEnglishExistingData(englishData) ==
    \/ Truthy(englishData, "existing_object_name_en")
    \/ Truthy(englishData, "existing_object_name")
    \/ Truthy(englishData, "existing_object_description")
    \/ Truthy(englishData, "existing_object_hint")

\* existingDataStatus[language] of one settled language.
HasExisting(result) ==
    \/ Truthy(result, "existing_object_name")
    \/ Truthy(result, "existing_object_description")
    \/ Truthy(result, "existing_object_hint")

\* finalResults[language]: the snapshot kept in originalResults.
SnapshotOf(result) ==
    [object_name |-> result.object_name,
     object_description |-> result.object_description,
     object_hint |-> result.object_hint,
     existing_object_name |-> OrElse(result, "existing_object_name", ""),
     existing_object_description |-> OrElse(result, "existing_object_description", ""),
     existing_object_hint |-> OrElse(result, "existing_object_hint", "")]

\* finalResults['English'], built from the English response itself.
EnglishSnapshot(englishData) ==
    [object_name |-> OrElse(englishData, "object_name_translated", ""),
     object_description |-> OrElse(englishData, "object_description", ""),
     object_hint |-> OrElse(englishData, "object_hint", ""),
     existing_object_name |-> OrElse(englishData, "existing_object_name", ""),
     existing_object_description |-> OrElse(englishData, "existing_object_description", ""),
     existing_object_hint |-> OrElse(englishData, "existing_object_hint", "")]

\* languages.forEach(language => { dict[language] = values[language] }), on
\* top of dict.
RECURSIVE PutEach(_, _, _)
PutEach(dict, languages, values) ==
    IF languages = <<>> THEN dict
    ELSE PutEach(Put(dict, Head(languages), values[Head(languages)]),
                 Tail(languages), values)

-----------------------------------------------------------------------------
(* Closures of the async handlers.                                         *)

IdleRun ==
    [pc |-> "idle", file |-> NoFile, languages |-> <<>>,
     inflight |-> {}, englishData |-> EmptyDict, settled |-> EmptyDict]

NoSave ==
    [pc |-> "idle", currentTab |-> "", languageResult |-> EmptyDict,
     commonData |-> EmptyDict, payload |-> EmptyDict]

\* What the interface renders, which decides the controls a user can reach.
availableTabs == {"English"} \cup Range(selectedLanguages)

TabsShown == DOMAIN languageResults # {}

CurrentResultShown == TabsShown /\ activeTab \in DOMAIN languageResults

\* FieldInputsShown without the test for database view.
FieldInputsShown_IgnoresView ==
    /\ CurrentResultShown
    /\ ~Flag(languageResults[activeTab], "isLoading")
    /\ ~Truthy(languageResults[activeTab], "error")
    /\ Flag(isEditing, activeTab)

\* The three field inputs are rendered instead of plain text.
FieldInputsShown ==
    /\ CurrentResultShown
    /\ ~Flag(languageResults[activeTab], "isLoading")
    /\ ~Truthy(languageResults[activeTab], "error")
    /\ Flag(isEditing, activeTab)
    /\ ~Flag(isDatabaseView, activeTab)

\* CommonInputsShown without the test for the active tab.
CommonInputsShown_AnyTab ==
    /\ TabsShown
    /\ Flag(isEditing, "English")
    /\ ~Flag(isDatabaseView, "English")

\* The category and tags inputs are rendered instead of plain text.
CommonInputsShown ==
    /\ TabsShown
    /\ Flag(isEditing, "English")
    /\ activeTab = "English"
    /\ ~Flag(isDatabaseView, "English")

\* The App of part_000: result: null.
NoResult == [null |-> TRUE]

\* The App of part_000: no request of handleIdentify in flight.
part_000_IdleRun == [pc |-> "idle", image |-> NoFile, language |-> ""]

\* The App of part_000: the useState initial values (and no file decoding, no request in flight).
part_000_InitialState ==
    [file |-> NoFile, previewUrl |-> NoPreview, language |-> "Hindi",
     result |-> NoResult, error |-> Null, isLoading |-> FALSE,
     decoding |-> EmptyDict, uploads |-> 0, run |-> part_000_IdleRun]

\* The state after the first render, but for the budget of user actions.
InitialState ==
    /\ file = NoFile
    /\ previewUrl = NoPreview
    /\ selectedLanguages = <<"Hindi">>
    /\ activeTab = "English"
    /\ languageResults = EmptyDict
    /\ commonData = EmptyCommonData
    /\ error = Null
    /\ isLoading = FALSE
    /\ originalResults = EmptyDict
    /\ originalCommonData = BareCommonData
    /\ isSaving = FALSE
    /\ saveMessage = Null
    /\ isEditing = EmptyDict
    /\ saveStatus = EmptyDict
    /\ isDatabaseView = EmptyDict
    /\ hasExistingData = EmptyDict
    /\ identifyRun = IdleRun
    /\ saveCall = NoSave
    /\ decoding = EmptyDict
    /\ uploads = 0
    /\ events = 0
    /\ lastSaved = EmptyDict
    /\ part_000 = part_000_InitialState

Init == InitialState /\ limit = MaxEvents

-----------------------------------------------------------------------------
(* Language selection.                                                     *)

\* ToggleEffect leaving the active tab on the language it deselects.
ToggleEffect_KeepsActiveTab(language) ==
    IF language \in Range(selectedLanguages)
    THEN /\ selectedLanguages' = Without(selectedLanguages, language)
         /\ languageResults' = Delete(languageResults, language)
         /\ UNCHANGED activeTab
    ELSE /\ selectedLanguages' = Append(selectedLanguages, language)
         /\ UNCHANGED <<activeTab, languageResults>>

\* The effect of handleLanguageToggle on the three cells it writes.
ToggleEffect(language) ==
    IF language \in Range(selectedLanguages)
    THEN /\ selectedLanguages' = Without(selectedLanguages, language)
         /\ activeTab' = IF activeTab = language THEN "English" ELSE activeTab
         /\ languageResults' = Delete(languageResults, language)
    ELSE /\ selectedLanguages' = Append(selectedLanguages, language)
         /\ UNCHANGED <<activeTab, languageResults>>

\* A checkbox of the language dropdown.
handleLanguageToggle(language) ==
    /\ events < limit
    /\ events' = events + 1
    /\ ToggleEffect(language)
    /\ UNCHANGED <<file, previewUrl, commonData, error, isLoading,
                   originalResults, originalCommonData, isSaving, saveMessage,
                   isEditing, saveStatus, isDatabaseView, hasExistingData,
                   identifyRun, saveCall, decoding, uploads, limit, part_000, lastSaved>>

\* The x of a badge or of a tab header (both exist only for selected languages).
removeLanguageTab(language) ==
    /\ language \in Range(selectedLanguages)
    /\ events < limit
    /\ events' = events + 1
    /\ saveStatus' = Delete(saveStatus, language)
    /\ ToggleEffect(language)
    /\ UNCHANGED <<file, previewUrl, commonData, error, isLoading,
                   originalResults, originalCommonData, isSaving, saveMessage,
                   isEditing, isDatabaseView, hasExistingData,
                   identifyRun, saveCall, decoding, uploads, limit, part_000, lastSaved>>

\* A click on a tab header.
setActiveTab(language) ==
    /\ TabsShown
    /\ language \in availableTabs
    /\ activeTab' = language
    /\ UNCHANGED <<file, previewUrl, selectedLanguages, languageResults,
                   commonData, error, isLoading, originalResults,
                   originalCommonData, isSaving, saveMessage, isEditing,
                   saveStatus, isDatabaseView, hasExistingData, identifyRun,
                   saveCall, decoding, uploads, events, limit, part_000, lastSaved>>

-----------------------------------------------------------------------------
(* Image intake.                                                           *)

\* The media types isValidFileType accepts.
validTypes ==
    {"image/jpeg", "image/png", "image/heic", "image/heif",
     "image/webp", "image/gif", "image/bmp", "image/tiff"}

\* Declared types a picked file may have besides those: the type the error
\* message calls jpg, a vector image, a document, and no type at all.
OtherTypes == {"image/jpg", "image/svg+xml", "application/pdf", ""}

\* isValidFileType accepting everything that calls itself an image.
isValidFileType_AnyImage(type) ==
    type \in validTypes \cup {"image/jpg", "image/svg+xml"}

isValidFileType(type) == type \in validTypes

UnsupportedType ==
    "Unsupported file type. Please upload a valid image (jpg, jpeg, png, heic, heif, webp, gif, bmp, tiff)."

\* handleFileChange for a picked or dropped file (its declared type and the
\* size of its picture).  An accepted file is handed to resizeImage, whose
\* callback fires later, or never when the browser cannot decode the file.
handleFileChange(selectedFile) ==
    /\ events < limit
    /\ events' = events + 1
    /\ IF ~isValidFileType(selectedFile.type)
       THEN /\ error' = UnsupportedType
            /\ UNCHANGED <<file, languageResults, commonData, isDatabaseView,
                           hasExistingData, decoding, uploads>>
       ELSE /\ uploads' = uploads + 1
            /\ file' = [img |-> uploads + 1, resized |-> FALSE,
                        type |-> selectedFile.type,
                        width |-> selectedFile.width,
                        height |-> selectedFile.height]
            /\ error' = Null
            /\ languageResults' = EmptyDict
            /\ commonData' = EmptyCommonData
            /\ isDatabaseView' = EmptyDict
            /\ hasExistingData' = EmptyDict
            /\ decoding' = Put(decoding, uploads + 1, selectedFile)
    /\ UNCHANGED <<previewUrl, selectedLanguages, activeTab, isLoading,
                   originalResults, originalCommonData, isSaving, saveMessage,
                   isEditing, saveStatus, identifyRun, saveCall, limit, part_000, lastSaved>>

maxWidth == 800

\* The size of the canvas resizeImage draws on: the width is maxWidth, the
\* height is img.height * (maxWidth / img.width) cut to an integer when it is
\* stored in canvas.height (an unsigned long).  For the sizes used here the
\* floating-point product is cut to the integer quotient.
CanvasSize(width, height) ==
    [width |-> maxWidth, height |-> (height * maxWidth) \div width]

\* The toBlob callback of resizeImage for image img (after img.onload): the
\* copy holds the canvas and keeps the declared type of the file it was made
\* of.
resizeImage(img) ==
    /\ img \in DOMAIN decoding
    /\ decoding' = Delete(decoding, img)
    /\ file' = [img |-> img, resized |-> TRUE, type |-> decoding[img].type,
                width |-> CanvasSize(decoding[img].width, decoding[img].height).width,
                height |-> CanvasSize(decoding[img].width, decoding[img].height).height]
    /\ previewUrl' = img
    /\ UNCHANGED <<selectedLanguages, activeTab, languageResults, commonData,
                   error, isLoading, originalResults, originalCommonData,
                   isSaving, saveMessage, isEditing, saveStatus,
                   isDatabaseView, hasExistingData, identifyRun, saveCall,
                   uploads, events, limit, part_000, lastSaved>>

-----------------------------------------------------------------------------
(* View and edit mode of the active tab.                                   *)

\* handleDatabaseViewToggle with the icon rendered for every tab.
handleDatabaseViewToggle_Ungated ==
    /\ CurrentResultShown
    /\ events < limit
    /\ events' = events + 1
    /\ isDatabaseView' = Put(isDatabaseView, activeTab, ~Flag(isDatabaseView, activeTab))
    /\ UNCHANGED <<file, previewUrl, selectedLanguages, activeTab,
                   languageResults, commonData, error, isLoading,
                   originalResults, originalCommonData, isSaving, saveMessage,
                   isEditing, saveStatus, hasExistingData, identifyRun,
                   saveCall, decoding, uploads, limit, part_000, lastSaved>>

\* The database icon, rendered when hasExistingData[activeTab].
handleDatabaseViewToggle ==
    /\ CurrentResultShown
    /\ events < limit
    /\ events' = events + 1
    /\ Flag(hasExistingData, activeTab)
    /\ isDatabaseView' = Put(isDatabaseView, activeTab, ~Flag(isDatabaseView, activeTab))
    /\ UNCHANGED <<file, previewUrl, selectedLanguages, activeTab,
                   languageResults, commonData, error, isLoading,
                   originalResults, originalCommonData, isSaving, saveMessage,
                   isEditing, saveStatus, hasExistingData, identifyRun,
                   saveCall, decoding, uploads, limit, part_000, lastSaved>>

\* handleEditClick leaving the edited fields in place when it cancels.
handleEditClick_KeepsFields ==
    /\ CurrentResultShown
    /\ events < limit
    /\ events' = events + 1
    /\ ~Flag(isDatabaseView, activeTab)
    /\ isEditing' = Put(isEditing, activeTab, ~Flag(isEditing, activeTab))
    /\ commonData' = IF Flag(isEditing, activeTab) /\ activeTab = "English"
                     THEN originalCommonData ELSE commonData
    /\ UNCHANGED <<file, previewUrl, selectedLanguages, activeTab, error,
                   languageResults, isLoading, originalResults,
                   originalCommonData, isSaving, saveMessage, saveStatus,
                   isDatabaseView, hasExistingData, identifyRun, saveCall,
                   decoding, uploads, limit, part_000, lastSaved>>

\* The pencil/eye icon, disabled while isDatabaseView[activeTab].
handleEditClick ==
    /\ CurrentResultShown
    /\ events < limit
    /\ events' = events + 1
    /\ ~Flag(isDatabaseView, activeTab)
    /\ IF Flag(isEditing, activeTab)
       THEN /\ commonData' = IF activeTab = "English" THEN originalCommonData
                                                       ELSE commonData
            /\ languageResults' =
                   Put(languageResults, activeTab,
                       IF activeTab \in DOMAIN originalResults
                       THEN originalResults[activeTab]
                       ELSE languageResults[activeTab])
            /\ isEditing' = Put(isEditing, activeTab, FALSE)
       ELSE /\ isEditing' = Put(isEditing, activeTab, TRUE)
            /\ UNCHANGED <<commonData, languageResults>>
    /\ UNCHANGED <<file, previewUrl, selectedLanguages, activeTab, error,
                   isLoading, originalResults, originalCommonData, isSaving,
                   saveMessage, saveStatus, isDatabaseView, hasExistingData,
                   identifyRun, saveCall, decoding, uploads, limit, part_000, lastSaved>>

\* updateLanguageResult marking every tab unsaved instead of the edited one.
updateLanguageResult_MarksAll(language, field, value) ==
    /\ languageResults' =
           Put(languageResults, language, Put(languageResults[language], field, value))
    /\ saveStatus' = [tab \in DOMAIN saveStatus \cup {language} |-> "unsaved"]
    /\ UNCHANGED <<file, previewUrl, selectedLanguages, activeTab, commonData,
                   error, isLoading, originalResults, originalCommonData,
                   isSaving, saveMessage, isEditing, isDatabaseView,
                   hasExistingData, identifyRun, saveCall, decoding, uploads,
                   limit, part_000, lastSaved>>

\* updateLanguageResult(language, field, value): the onChange of a field input.
updateLanguageResult(language, field, value) ==
    /\ languageResults' =
           Put(languageResults, language, Put(languageResults[language], field, value))
    /\ saveStatus' = Put(saveStatus, language, "unsaved")
    /\ UNCHANGED <<file, previewUrl, selectedLanguages, activeTab, commonData,
                   error, isLoading, originalResults, originalCommonData,
                   isSaving, saveMessage, isEditing, isDatabaseView,
                   hasExistingData, identifyRun, saveCall, decoding, uploads,
                   limit, part_000, lastSaved>>

\* A keystroke in one of the three field inputs of the active tab.
EditField(field) ==
    /\ FieldInputsShown
    /\ events < limit
    /\ events' = events + 1
    /\ updateLanguageResult(activeTab, field, TypedText)

\* updateCommonData(field, value): the onChange of the category or tags input.
updateCommonData(field, value) ==
    /\ commonData' = Put(commonData, field, value)
    /\ saveStatus' = Put(saveStatus, "English", "unsaved")
    /\ UNCHANGED <<file, previewUrl, selectedLanguages, activeTab,
                   languageResults, error, isLoading, originalResults,
                   originalCommonData, isSaving, saveMessage, isEditing,
                   isDatabaseView, hasExistingData, identifyRun, saveCall,
                   decoding, uploads, limit, part_000, lastSaved>>

\* A keystroke in the category input or in the tags input.
EditCommon(field) ==
    /\ CommonInputsShown
    /\ events < limit
    /\ events' = events + 1
    /\ updateCommonData(field, IF field = "tags" THEN TypedTags ELSE TypedText)

-----------------------------------------------------------------------------
(* Persistence bridge: handleQuickSave.                                    *)

\* CommonAttributes reading the live commonData for every tab.
CommonAttributes_Current(currentTab, common, originalCommon) ==
    [object_name_en |-> OrElse(common, "object_name_en_base", ""),
     object_category |-> OrElse(common, "object_category", ""),
     tags |-> TagsOf(common, "tags"),
     userid |-> "system"]

\* commonAttributes of the update request.
CommonAttributes(currentTab, common, originalCommon) ==
    LET from == IF currentTab = "English" THEN common ELSE originalCommon
    IN  [object_name_en |-> OrElse(from, "object_name_en_base", ""),
         object_category |-> OrElse(from, "object_category", ""),
         tags |-> TagsOf(from, "tags"),
         userid |-> "system"]

\* languageAttributes of the update request.
LanguageAttributes(currentTab, result) ==
    << [language |-> currentTab,
        object_name |-> OrElse(result, "object_name", ""),
        object_description |-> OrElse(result, "object_description", ""),
        object_hint |-> OrElse(result, "object_hint", "")] >>

\* The form data posted to update-object (the two JSON fields as objects).
SavePayload(currentTab, image, result, common, originalCommon) ==
    [image |-> image,
     common_attributes |-> CommonAttributes(currentTab, common, originalCommon),
     language_attributes |-> LanguageAttributes(currentTab, result)]

\* handleQuickSave behind a save icon that isSaving does not disable.
handleQuickSave_WhileSaving ==
    /\ CurrentResultShown
    /\ ~Flag(isDatabaseView, activeTab)
    /\ file # NoFile
    /\ events < limit
    /\ events' = events + 1
    /\ isSaving' = TRUE
    /\ saveMessage' = Null
    /\ saveCall' = [pc |-> "fetch",
                    currentTab |-> activeTab,
                    languageResult |-> languageResults[activeTab],
                    commonData |-> commonData,
                    payload |-> SavePayload(activeTab, file, languageResults[activeTab],
                                            commonData, originalCommonData)]
    /\ UNCHANGED <<file, previewUrl, selectedLanguages, activeTab,
                   languageResults, commonData, error, isLoading,
                   originalResults, originalCommonData, isEditing, saveStatus,
                   isDatabaseView, hasExistingData, identifyRun, decoding,
                   uploads, limit, part_000, lastSaved>>

\* The save icon, disabled while isSaving or isDatabaseView[activeTab]: the
\* handler up to its fetch.
handleQuickSave ==
    /\ CurrentResultShown
    /\ ~isSaving
    /\ ~Flag(isDatabaseView, activeTab)
    /\ file # NoFile
    /\ events < limit
    /\ events' = events + 1
    /\ isSaving' = TRUE
    /\ saveMessage' = Null
    /\ saveCall' = [pc |-> "fetch",
                    currentTab |-> activeTab,
                    languageResult |-> languageResults[activeTab],
                    commonData |-> commonData,
                    payload |-> SavePayload(activeTab, file, languageResults[activeTab],
                                            commonData, originalCommonData)]
    /\ UNCHANGED <<file, previewUrl, selectedLanguages, activeTab,
                   languageResults, commonData, error, isLoading,
                   originalResults, originalCommonData, isEditing, saveStatus,
                   isDatabaseView, hasExistingData, identifyRun, decoding,
                   uploads, limit, part_000, lastSaved>>

\* The fields of a tab that a save request carried.
SentFields(payload) ==
    [object_name |-> payload.language_attributes[1].object_name,
     object_description |-> payload.language_attributes[1].object_description,
     object_hint |-> payload.language_attributes[1].object_hint]

\* SaveSucceeded leaving the tab in edit mode.
SaveSucceeded_KeepsEditing ==
    /\ saveCall.pc = "fetch"
    /\ originalCommonData' = IF saveCall.currentTab = "English"
                             THEN saveCall.commonData ELSE originalCommonData
    /\ originalResults' = Put(originalResults, saveCall.currentTab, saveCall.languageResult)
    /\ saveStatus' = Put(saveStatus, saveCall.currentTab, "saved")
    /\ saveMessage' = saveCall.currentTab \o " data saved successfully!"
    /\ isSaving' = FALSE
    /\ saveCall' = NoSave
    /\ lastSaved' = Put(lastSaved, saveCall.currentTab, SentFields(saveCall.payload))
    /\ UNCHANGED <<file, previewUrl, selectedLanguages, activeTab,
                   languageResults, commonData, error, isLoading, isEditing,
                   isDatabaseView, hasExistingData, identifyRun, decoding,
                   uploads, events, limit, part_000>>

\* SaveSucceeded writing under the tab that is active when the reply arrives
\* instead of the tab the save was started on.
SaveSucceeded_ActiveTab ==
    /\ saveCall.pc = "fetch"
    /\ originalCommonData' = IF activeTab = "English"
                             THEN saveCall.commonData ELSE originalCommonData
    /\ originalResults' = Put(originalResults, activeTab, saveCall.languageResult)
    /\ saveStatus' = Put(saveStatus, activeTab, "saved")
    /\ isEditing' = Put(isEditing, activeTab, FALSE)
    /\ saveMessage' = saveCall.currentTab \o " data saved successfully!"
    /\ isSaving' = FALSE
    /\ saveCall' = NoSave
    /\ lastSaved' = Put(lastSaved, saveCall.currentTab, SentFields(saveCall.payload))
    /\ UNCHANGED <<file, previewUrl, selectedLanguages, activeTab,
                   languageResults, commonData, error, isLoading,
                   isDatabaseView, hasExistingData, identifyRun, decoding,
                   uploads, events, limit, part_000>>

\* handleQuickSave after a 2xx reply of update-object.
SaveSucceeded ==
    /\ saveCall.pc = "fetch"
    /\ originalCommonData' = IF saveCall.currentTab = "English"
                             THEN saveCall.commonData ELSE originalCommonData
    /\ originalResults' = Put(originalResults, saveCall.currentTab, saveCall.languageResult)
    /\ saveStatus' = Put(saveStatus, saveCall.currentTab, "saved")
    /\ isEditing' = Put(isEditing, saveCall.currentTab, FALSE)
    /\ saveMessage' = saveCall.currentTab \o " data saved successfully!"
    /\ isSaving' = FALSE
    /\ saveCall' = NoSave
    /\ lastSaved' = Put(lastSaved, saveCall.currentTab, SentFields(saveCall.payload))
    /\ UNCHANGED <<file, previewUrl, selectedLanguages, activeTab,
                   languageResults, commonData, error, isLoading,
                   isDatabaseView, hasExistingData, identifyRun, decoding,
                   uploads, events, limit, part_000>>

\* The message of the Error caught by handleQuickSave.
SaveErrorMessage(failure) ==
    IF failure = "http" THEN "Failed to save to database" ELSE "Failed to fetch"

\* SaveFailed marking the tab saved all the same.
SaveFailed_MarksSaved(failure) ==
    /\ saveCall.pc = "fetch"
    /\ saveMessage' = "Error saving " \o saveCall.currentTab \o ": "
                          \o SaveErrorMessage(failure)
    /\ saveStatus' = Put(saveStatus, saveCall.currentTab, "saved")
    /\ isSaving' = FALSE
    /\ saveCall' = NoSave
    /\ UNCHANGED <<file, previewUrl, selectedLanguages, activeTab,
                   languageResults, commonData, error, isLoading,
                   originalResults, originalCommonData, isEditing,
                   isDatabaseView, hasExistingData, identifyRun, decoding,
                   uploads, events, limit, part_000, lastSaved>>

\* handleQuickSave after a non-2xx reply or a rejected fetch.
SaveFailed(failure) ==
    /\ saveCall.pc = "fetch"
    /\ saveMessage' = "Error saving " \o saveCall.currentTab \o ": "
                          \o SaveErrorMessage(failure)
    /\ isSaving' = FALSE
    /\ saveCall' = NoSave
    /\ UNCHANGED <<file, previewUrl, selectedLanguages, activeTab,
                   languageResults, commonData, error, isLoading,
                   originalResults, originalCommonData, isEditing, saveStatus,
                   isDatabaseView, hasExistingData, identifyRun, decoding,
                   uploads, events, limit, part_000, lastSaved>>

-----------------------------------------------------------------------------
(* Identification orchestrator: handleIdentify.                            *)

\* initialResults: a loading record for English and every selected language.
InitialResults(languages) ==
    [l \in {"English"} \cup Range(languages) |-> LoadingResult]

\* handleIdentify with a button that stays enabled while a run is in progress.
handleIdentify_WhileLoading ==
    /\ events < limit
    /\ events' = events + 1
    /\ saveMessage' = Null
    /\ IF file = NoFile
       THEN /\ error' = "Please upload an image first."
            /\ UNCHANGED <<isLoading, languageResults, commonData, identifyRun>>
       ELSE IF Len(selectedLanguages) = 0
       THEN /\ error' = "Please select at least one language."
            /\ UNCHANGED <<isLoading, languageResults, commonData, identifyRun>>
       ELSE /\ isLoading' = TRUE
            /\ error' = Null
            /\ commonData' = BareCommonData
            /\ languageResults' = InitialResults(selectedLanguages)
            /\ identifyRun' = [pc |-> "english", file |-> file,
                               languages |-> selectedLanguages,
                               inflight |-> {"English"},
                               englishData |-> EmptyDict, settled |-> EmptyDict]
    /\ UNCHANGED <<file, previewUrl, selectedLanguages, activeTab,
                   originalResults, originalCommonData, isSaving, isEditing,
                   saveStatus, isDatabaseView, hasExistingData, saveCall,
                   decoding, uploads, limit, part_000, lastSaved>>

\* handleIdentify without the test for an empty selection.
handleIdentify_NoLanguageCheck ==
    /\ ~isLoading
    /\ events < limit
    /\ events' = events + 1
    /\ saveMessage' = Null
    /\ IF file = NoFile
       THEN /\ error' = "Please upload an image first."
            /\ UNCHANGED <<isLoading, languageResults, commonData, identifyRun>>
       ELSE /\ isLoading' = TRUE
            /\ error' = Null
            /\ commonData' = BareCommonData
            /\ languageResults' = InitialResults(selectedLanguages)
            /\ identifyRun' = [pc |-> "english", file |-> file,
                               languages |-> selectedLanguages,
                               inflight |-> {"English"},
                               englishData |-> EmptyDict, settled |-> EmptyDict]
    /\ UNCHANGED <<file, previewUrl, selectedLanguages, activeTab,
                   originalResults, originalCommonData, isSaving, isEditing,
                   saveStatus, isDatabaseView, hasExistingData, saveCall,
                   decoding, uploads, limit, part_000, lastSaved>>

\* The Identify button (disabled while isLoading): the handler up to the
\* fetch of the English request.
handleIdentify ==
    /\ ~isLoading
    /\ events < limit
    /\ events' = events + 1
    /\ saveMessage' = Null
    /\ IF file = NoFile
       THEN /\ error' = "Please upload an image first."
            /\ UNCHANGED <<isLoading, languageResults, commonData, identifyRun>>
       ELSE IF Len(selectedLanguages) = 0
       THEN /\ error' = "Please select at least one language."
            /\ UNCHANGED <<isLoading, languageResults, commonData, identifyRun>>
       ELSE /\ isLoading' = TRUE
            /\ error' = Null
            /\ commonData' = BareCommonData
            /\ languageResults' = InitialResults(selectedLanguages)
            /\ identifyRun' = [pc |-> "english", file |-> file,
                               languages |-> selectedLanguages,
                               inflight |-> {"English"},
                               englishData |-> EmptyDict, settled |-> EmptyDict]
    /\ UNCHANGED <<file, previewUrl, selectedLanguages, activeTab,
                   originalResults, originalCommonData, isSaving, isEditing,
                   saveStatus, isDatabaseView, hasExistingData, saveCall,
                   decoding, uploads, limit, part_000, lastSaved>>

\* The requests issued once the English response was accepted: one per
\* language the run closed over.
FanOut(languages) == Range(languages)

\* handleIdentify after a 2xx reply to the English request: lines 354-434.
EnglishSucceeded(shape) ==
    /\ identifyRun.pc = "english"
    /\ LET englishData == ApiResponse("English", identifyRun.file, shape)
       IN  /\ commonData' = CommonDataOf(englishData)
           /\ languageResults' = Put(languageResults, "English", SuccessResult(englishData))
           /\ hasExistingData' = Put(hasExistingData, "English",
                                     hasEnglishExistingData(englishData))
           /\ identifyRun' = [identifyRun EXCEPT !.pc = "fanout",
                                                 !.englishData = englishData,
                                                 !.inflight = FanOut(identifyRun.languages)]
    /\ UNCHANGED <<file, previewUrl, selectedLanguages, activeTab, error,
                   isLoading, originalResults, originalCommonData, isSaving,
                   saveMessage, isEditing, saveStatus, isDatabaseView,
                   saveCall, decoding, uploads, events, limit, part_000, lastSaved>>

\* EnglishFailed without the throw: the run would go on to the per-language
\* requests with no English response.
EnglishFailed_Continues(failure) ==
    /\ identifyRun.pc = "english"
    /\ identifyRun' = [identifyRun EXCEPT !.pc = "fanout",
                                          !.inflight = FanOut(identifyRun.languages)]
    /\ UNCHANGED <<file, previewUrl, selectedLanguages, activeTab,
                   languageResults, commonData, error, isLoading,
                   originalResults, originalCommonData, isSaving, saveMessage,
                   isEditing, saveStatus, isDatabaseView, hasExistingData,
                   saveCall, decoding, uploads, events, limit, part_000, lastSaved>>

\* handleIdentify after a failed English request: the outer catch and finally.
EnglishFailed(failure) ==
    /\ identifyRun.pc = "english"
    /\ error' = "Error: " \o IdentifyErrorMessage("English", failure)
    /\ isLoading' = FALSE
    /\ identifyRun' = IdleRun
    /\ UNCHANGED <<file, previewUrl, selectedLanguages, activeTab,
                   languageResults, commonData, originalResults,
                   originalCommonData, isSaving, saveMessage, isEditing,
                   saveStatus, isDatabaseView, hasExistingData, saveCall,
                   decoding, uploads, events, limit, part_000, lastSaved>>

\* What one language's promise resolves to: lines 394-434.
LanguageOutcome(language, image, outcome, shape) ==
    IF outcome = "ok"
    THEN SuccessResult(ApiResponse(language, image, shape))
    ELSE FailureResult(IdentifyErrorMessage(language, outcome))

\* languageResults after Promise.all: every settled result written under its
\* own key, on top of what the state holds then.
MergeResults(prev, languages, settled) == PutEach(prev, languages, settled)

\* FinishIdentify keeping the save status a tab had before the run.
FinishIdentify_KeepsStatus(settled) ==
    LET languages == identifyRun.languages
        englishData == identifyRun.englishData
        tabs == {"English"} \cup Range(languages)
    IN  /\ languageResults' = MergeResults(languageResults, languages, settled)
        /\ hasExistingData' =
               PutEach([l \in {"English"} |-> hasEnglishExistingData(englishData)],
                       languages, [l \in DOMAIN settled |-> HasExisting(settled[l])])
        /\ originalResults' =
               PutEach([l \in {"English"} |-> EnglishSnapshot(englishData)],
                       languages, [l \in DOMAIN settled |-> SnapshotOf(settled[l])])
        /\ saveStatus' = [tab \in tabs |-> IF tab \in DOMAIN saveStatus
                                            THEN saveStatus[tab] ELSE "unsaved"]
        /\ originalCommonData' = CommonDataOf(englishData)
        /\ isLoading' = FALSE
        /\ identifyRun' = IdleRun

\* The rest of handleIdentify once Promise.all resolved: lines 436-506.
FinishIdentify(settled) ==
    LET languages == identifyRun.languages
        englishData == identifyRun.englishData
    IN  /\ languageResults' = MergeResults(languageResults, languages, settled)
        /\ hasExistingData' =
               PutEach([l \in {"English"} |-> hasEnglishExistingData(englishData)],
                       languages, [l \in DOMAIN settled |-> HasExisting(settled[l])])
        /\ originalResults' =
               PutEach([l \in {"English"} |-> EnglishSnapshot(englishData)],
                       languages, [l \in DOMAIN settled |-> SnapshotOf(settled[l])])
        /\ saveStatus' =
               PutEach([l \in {"English"} |-> "unsaved"],
                       languages, [l \in DOMAIN settled |-> "unsaved"])
        /\ originalCommonData' = CommonDataOf(englishData)
        /\ isLoading' = FALSE
        /\ identifyRun' = IdleRun

\* One language's request settles.  The promise keeps the result; state is
\* written only when the last one has settled and Promise.all resolves, which
\* happens in the same task.
LanguageSettled(language, outcome, shape) ==
    /\ identifyRun.pc = "fanout"
    /\ language \in identifyRun.inflight
    /\ LET settled == Put(identifyRun.settled, language,
                          LanguageOutcome(language, identifyRun.file, outcome, shape))
           left == identifyRun.inflight \ {language}
       IN  IF left # {}
           THEN /\ identifyRun' = [identifyRun EXCEPT !.inflight = left,
                                                      !.settled = settled]
                /\ UNCHANGED <<languageResults, hasExistingData, originalResults,
                               saveStatus, originalCommonData, isLoading>>
           ELSE FinishIdentify(settled)
    /\ UNCHANGED <<file, previewUrl, selectedLanguages, activeTab, commonData,
                   error, isSaving, saveMessage, isEditing, isDatabaseView,
                   saveCall, decoding, uploads, events, limit, part_000, lastSaved>>

-----------------------------------------------------------------------------
(* The specification.                                                      *)

\* The declared types of the files the user picks, where the type is not what
\* a property is about: one that is accepted and two that are not.
PickedTypes == {"image/png", "image/svg+xml", ""}

\* A picked file of the declared type holding a picture of 1600 by 1200.
Picture(type) == [type |-> type, width |-> 1600, height |-> 1200]

\* The sizes of the pictures a user picks where the size is what a property
\* is about: wider than maxWidth with and without a fractional scaled height,
\* as wide as maxWidth, and narrower.
Sizes == {<<1600, 1200>>, <<1200, 1000>>, <<1601, 1000>>, <<800, 600>>, <<400, 300>>}

SizedFiles == {[type |-> "image/png", width |-> size[1], height |-> size[2]] : size \in Sizes}

\* The user's actions on the language selection and the tabs.
SelectionActions ==
    \/ \E language \in languageOptions : handleLanguageToggle(language)
    \/ \E language \in languageOptions : removeLanguageTab(language)

TabActions ==
    \E language \in {"English"} \cup languageOptions : setActiveTab(language)

\* Image intake, for picked files that are among files.
IntakeActions(files) ==
    \/ \E selectedFile \in files : handleFileChange(selectedFile)
    \/ \E img \in 1..limit : resizeImage(img)

\* One identify run: the click and the settling of its requests, with the
\* service answering in one of shapes or failing in one of failures.
IdentifyActions(shapes, failures) ==
    \/ handleIdentify
    \/ \E shape \in shapes : EnglishSucceeded(shape)
    \/ \E failure \in failures : EnglishFailed(failure)
    \/ \E language \in languageOptions, shape \in shapes :
           LanguageSettled(language, "ok", shape)
    \/ \E language \in languageOptions, failure \in failures :
           LanguageSettled(language, failure, "fresh")

\* The icons and inputs of the active tab.
ViewActions ==
    \/ handleDatabaseViewToggle
    \/ handleEditClick

EditActions ==
    \/ \E field \in EditableFields : EditField(field)
    \/ \E field \in {"object_category", "tags"} : EditCommon(field)

SaveActions ==
    \/ handleQuickSave
    \/ SaveSucceeded
    \/ \E failure \in Failures : SaveFailed(failure)

\* Everything the user and the network can do.
Next ==
    \/ SelectionActions
    \/ TabActions
    \/ IntakeActions({Picture(type) : type \in PickedTypes})
    \/ IdentifyActions(Shapes, Failures)
    \/ ViewActions
    \/ EditActions
    \/ SaveActions

Spec == Init /\ [][Next]_vars

\* The identification orchestrator under a user who selects languages,
\* switches tabs and uploads images, but neither edits nor saves.
NextIdentify ==
    \/ SelectionActions
    \/ TabActions
    \/ IntakeActions({Picture(type) : type \in PickedTypes})
    \/ IdentifyActions(Shapes, Failures)

InitIdentify == InitialState /\ limit = MaxIdentifyEvents

SpecIdentify == InitIdentify /\ [][NextIdentify]_vars

\* A reply to (or the failure of) a request of the run in progress.
ReplyArrives ==
    \/ \E shape \in Shapes : EnglishSucceeded(shape)
    \/ \E failure \in Failures : EnglishFailed(failure)
    \/ \E language \in languageOptions, shape \in Shapes :
           LanguageSettled(language, "ok", shape)
    \/ \E language \in languageOptions, failure \in Failures :
           LanguageSettled(language, failure, "fresh")

\* SpecIdentify with a network on which every issued request settles, while
\* the user may stop acting at any time.
SpecIdentifyLive ==
    InitIdentify /\ [][NextIdentify]_vars /\ WF_vars(ReplyArrives)

\* Image intake under a user who picks files of every declared type and has
\* them identified, with the initial language selection.
NextIntake ==
    \/ IntakeActions({Picture(type) : type \in validTypes \cup OtherTypes})
    \/ IdentifyActions({"fresh"}, {"http"})

InitIntake == InitialState /\ limit = MaxIntakeEvents

SpecIntake == InitIntake /\ [][NextIntake]_vars

\* Image intake under a user who picks png files of every size and has them
\* identified, with the initial language selection.
NextResize ==
    \/ IntakeActions(SizedFiles)
    \/ IdentifyActions({"fresh"}, {"http"})

InitResize == InitialState /\ limit = MaxResizeEvents

SpecResize == InitResize /\ [][NextResize]_vars

\* The edit/save state machine under a user who keeps the initial language
\* selection (English and Hindi) and picks png files, with a
\* service that knows the image (so that every icon is rendered) or answers
\* with an HTTP error.  The callback of resizeImage does not fire: it writes
\* file and previewUrl only, which no icon or input reads.
NextEdit ==
    \/ TabActions
    \/ handleFileChange(Picture("image/png"))
    \/ IdentifyActions({"known"}, {"http"})
    \/ ViewActions
    \/ EditActions
    \/ SaveActions

InitEdit == InitialState /\ limit = MaxEditEvents

SpecEdit == InitEdit /\ [][NextEdit]_vars

\* A reply to (or the failure of) the update request in flight.
SaveReplyArrives ==
    \/ SaveSucceeded
    \/ \E failure \in Failures : SaveFailed(failure)

\* SpecEdit with a network on which every update request settles, while the
\* user may stop acting at any time.
SpecEditLive ==
    InitEdit /\ [][NextEdit]_vars /\ WF_vars(SaveReplyArrives)

-----------------------------------------------------------------------------
(* The single-language App of part_000.  Its state cells are the fields of *)
(* the variable part_000; the App of index.tsx is not mounted with it.     *)

\* The state cells of the App of index.tsx, which part_000 does not have.
IndexApp ==
    <<file, previewUrl, selectedLanguages, activeTab, languageResults,
      commonData, error, isLoading, originalResults, originalCommonData,
      isSaving, saveMessage, isEditing, saveStatus, isDatabaseView,
      hasExistingData, identifyRun, saveCall, decoding, uploads, lastSaved>>

API_URL == "http://localhost:8000/identify-object/"

\* The language select.
part_000_setLanguage(language) ==
    /\ language # part_000.language
    /\ events < limit
    /\ events' = events + 1
    /\ part_000' = [part_000 EXCEPT !.language = language]
    /\ UNCHANGED <<IndexApp, limit>>

\* handleFileChange of part_000 for a picked or dropped file.
part_000_handleFileChange(selectedFile) ==
    /\ events < limit
    /\ events' = events + 1
    /\ part_000' =
          IF ~isValidFileType(selectedFile.type)
          THEN [part_000 EXCEPT !.error = UnsupportedType]
          ELSE [part_000 EXCEPT
                   !.file = [img |-> part_000.uploads + 1, resized |-> FALSE,
                             type |-> selectedFile.type,
                             width |-> selectedFile.width,
                             height |-> selectedFile.height],
                   !.error = Null,
                   !.result = NoResult,
                   !.uploads = part_000.uploads + 1,
                   !.decoding = Put(part_000.decoding, part_000.uploads + 1, selectedFile)]
    /\ UNCHANGED <<IndexApp, limit>>

\* The toBlob callback of resizeImage of part_000 for image img.
part_000_resizeImage(img) ==
    /\ img \in DOMAIN part_000.decoding
    /\ part_000' =
          [part_000 EXCEPT
              !.decoding = Delete(part_000.decoding, img),
              !.file = [img |-> img, resized |-> TRUE,
                        type |-> part_000.decoding[img].type,
                        width |-> CanvasSize(part_000.decoding[img].width,
                                             part_000.decoding[img].height).width,
                        height |-> CanvasSize(part_000.decoding[img].width,
                                              part_000.decoding[img].height).height],
              !.previewUrl = img]
    /\ UNCHANGED <<IndexApp, events, limit>>

\* The identify button of part_000 (disabled while isLoading): handleIdentify
\* up to its fetch.
part_000_handleIdentify ==
    /\ ~part_000.isLoading
    /\ events < limit
    /\ events' = events + 1
    /\ part_000' =
          IF part_000.file = NoFile
          THEN [part_000 EXCEPT !.error = "Please upload an image first."]
          ELSE [part_000 EXCEPT
                   !.isLoading = TRUE,
                   !.error = Null,
                   !.result = NoResult,
                   !.run = [pc |-> "fetch", image |-> part_000.file,
                            language |-> part_000.language]]
    /\ UNCHANGED <<IndexApp, limit>>

\* The JSON object the service returns for an image it could identify.
part_000_ApiResponse(language, image) ==
    [object_name_en |-> Text("name_en", "English", image),
     object_name_translated |-> Text("name", language, image),
     translated_to |-> language,
     object_description_en |-> Text("description", "English", image),
     object_description_translated |-> Text("description", language, image),
     object_hint_en |-> Text("hint", "English", image),
     object_hint_translated |-> Text("hint", language, image)]

\* What can come back for a request: fetch rejects; or a reply with its ok
\* flag, its status and status text, and a body that is a JSON object, a JSON
\* string, the JSON null, or no JSON at all.
part_000_Replies(language, image) ==
    {[fetched |-> FALSE]}
    \cup {[fetched |-> TRUE, ok |-> TRUE, status |-> "200 - OK", json |-> "object", data |-> data] :
            data \in {part_000_ApiResponse(language, image),
                      [error |-> "Could not parse model output", raw_output |-> "raw"],
                      EmptyDict}}
    \cup {[fetched |-> TRUE, ok |-> FALSE, status |-> "400 - Bad Request", json |-> "object", data |-> data] :
            data \in {[detail |-> "Invalid image"], EmptyDict}}
    \cup {[fetched |-> TRUE, ok |-> ok, status |-> IF ok THEN "200 - OK" ELSE "500 - Internal Server Error",
           json |-> json, data |-> EmptyDict] :
            ok \in BOOLEAN, json \in {"string", "null", "invalid"}}

\* The message handleIdentify of part_000 builds in its catch block.
NetworkError(err) ==
    "Network Error: " \o err \o ". Verify that the backend is running at "
        \o API_URL \o " and CORS is configured."

\* handleIdentify of part_000 setting the result on a reply that is not ok as
\* well.
part_000_Outcome_ShowsErrorBody(reply) ==
    IF ~reply.fetched
    THEN [result |-> NoResult, error |-> NetworkError("TypeError: Failed to fetch")]
    ELSE IF reply.json = "invalid"
    THEN [result |-> NoResult,
          error |-> NetworkError("SyntaxError: Unexpected token < in JSON at position 0")]
    ELSE IF reply.json = "object"
    THEN [result |-> reply.data,
          error |-> IF reply.ok THEN Null
                    ELSE "Unexpected response: " \o reply.status
                           \o (IF Truthy(reply.data, "detail")
                               THEN ": " \o reply.data.detail ELSE "")]
    ELSE IF reply.json = "null"
    THEN [result |-> NoResult,
          error |-> NetworkError("TypeError: Cannot read properties of null (reading 'detail')")]
    ELSE [result |-> NoResult, error |-> "Unexpected response: " \o reply.status]

\* What handleIdentify of part_000 writes to result and error after its
\* fetch: the try block from response.json() on, and the catch block.
part_000_Outcome(reply) ==
    IF ~reply.fetched
    THEN [result |-> NoResult, error |-> NetworkError("TypeError: Failed to fetch")]
    ELSE IF reply.json = "invalid"
    THEN [result |-> NoResult,
          error |-> NetworkError("SyntaxError: Unexpected token < in JSON at position 0")]
    ELSE IF reply.ok /\ reply.json = "object"
    THEN [result |-> reply.data, error |-> Null]
    ELSE IF reply.json = "null"
    THEN [result |-> NoResult,
          error |-> NetworkError("TypeError: Cannot read properties of null (reading 'detail')")]
    ELSE [result |-> NoResult,
          error |-> "Unexpected response: " \o reply.status
                      \o (IF reply.json = "object" /\ Truthy(reply.data, "detail")
                          THEN ": " \o reply.data.detail ELSE "")]

\* handleIdentify of part_000 from the settling of its fetch to the end of
\* its finally block.
part_000_Settled(reply) ==
    /\ part_000.run.pc = "fetch"
    /\ reply \in part_000_Replies(part_000.run.language, part_000.run.image)
    /\ part_000' = [part_000 EXCEPT
                       !.result = part_000_Outcome(reply).result,
                       !.error = part_000_Outcome(reply).error,
                       !.isLoading = FALSE,
                       !.run = part_000_IdleRun]
    /\ UNCHANGED <<IndexApp, events, limit>>

\* The App of part_000 under a user who picks a language, picks files and
\* has them identified.
Next_part_000 ==
    \/ \E language \in languageOptions : part_000_setLanguage(language)
    \/ \E type \in PickedTypes : part_000_handleFileChange(Picture(type))
    \/ \E img \in 1..limit : part_000_resizeImage(img)
    \/ part_000_handleIdentify
    \/ \E reply \in part_000_Replies(part_000.run.language, part_000.run.image) :
          part_000_Settled(reply)

Init_part_000 == InitialState /\ limit = MaxPart000Events

Spec_part_000 == Init_part_000 /\ [][Next_part_000]_vars

-----------------------------------------------------------------------------
(* Properties of the identification orchestrator (SpecIdentify).           *)

\* The step in which the last language request of a run settles and the code
\* after Promise.all runs.
RunCompletes == identifyRun.pc = "fanout" /\ identifyRun'.pc = "idle"

\* The messages the outer catch of handleIdentify can put into error.
RunErrors ==
    {"Error: " \o IdentifyErrorMessage(language, failure) :
        language \in {"English"} \cup languageOptions, failure \in Failures}

\* A record of a failed language: empty fields and a non-empty error.
IsFailedRecord(result) ==
    /\ Truthy(result, "error")
    /\ \A field \in EditableFields : result[field] = ""

\* A record holding the fields the service returned for this language and image.
IsOwnRecord(result, language, image) ==
    /\ "error" \notin DOMAIN result
    /\ result.object_name = Text("name", language, image)
    /\ result.object_description = Text("description", language, image)
    /\ result.object_hint = Text("hint", language, image)

\* C1: when a run whose English request succeeded completes, every language
\* of the run whose request failed has a record with empty name, description
\* and hint and a non-empty error, every other language of the run has a
\* record with the fields of its own response and no error, and the run has
\* not put anything into the global error slot.
C1_FailureIsolation ==
    [][RunCompletes =>
          /\ \A language \in Range(identifyRun.languages) :
                /\ language \in DOMAIN languageResults'
                /\ \/ IsFailedRecord(languageResults'[language])
                   \/ IsOwnRecord(languageResults'[language], language, identifyRun.file)
                /\ language \in DOMAIN identifyRun.settled =>
                      /\ languageResults'[language] = identifyRun.settled[language]
                      /\ IsFailedRecord(languageResults'[language])
                             <=> Truthy(identifyRun.settled[language], "error")
          /\ error' = error
          /\ error' \notin RunErrors]_vars

\* A run of Hindi and French has completed with Hindi failed and French
\* answered, and no global error.
C1_Witness ==
    /\ identifyRun.pc = "idle"
    /\ ~isLoading
    /\ error = Null
    /\ {"English", "Hindi", "French"} \subseteq DOMAIN languageResults
    /\ IsFailedRecord(languageResults["Hindi"])
    /\ IsOwnRecord(languageResults["French"], "French", file)
    /\ IsOwnRecord(languageResults["English"], "English", file)

\* C2: when a run started with selected languages S completes, languageResults
\* holds exactly the keys English and S, none of them loading.
C2_ExactKeys ==
    [][RunCompletes =>
          /\ DOMAIN languageResults' = {"English"} \cup Range(identifyRun.languages)
          /\ \A language \in DOMAIN languageResults' :
                ~languageResults'[language].isLoading]_vars

\* C3: a per-language request is in flight only after the English response of
\* its run was received; a failed English request ends the run with the
\* global error set and no request in flight, and the next request issued
\* after that is the English request of a new run.
C3_EnglishFirst ==
    /\ [](identifyRun.inflight \ {"English"} # {} =>
              /\ identifyRun.englishData # EmptyDict
              /\ "English" \notin identifyRun.inflight)
    /\ [][/\ identifyRun.pc = "english" /\ identifyRun'.pc = "idle" =>
                /\ error' \in RunErrors
                /\ ~isLoading'
                /\ identifyRun'.inflight = {}
          /\ identifyRun.pc = "idle" => identifyRun'.inflight \subseteq {"English"}]_vars

\* The English request of a run failed: the run is over, the error is shown
\* and the records of the run are still the loading placeholders.
C3_Witness ==
    /\ identifyRun.pc = "idle"
    /\ error = "Error: English API Error: Bad Request"
    /\ ~isLoading
    /\ "Hindi" \in DOMAIN languageResults
    /\ languageResults["Hindi"] = LoadingResult

-----------------------------------------------------------------------------
(* Properties of selection, intake, runs and of the edit/save state        *)
(* machine (SpecIdentify, SpecIntake, SpecEdit).                           *)

AllTabs == {"English"} \cup languageOptions

\* dict[key] is the same, or as absent, after the step as before.
EntryUnchanged(before, after, key) ==
    /\ key \in DOMAIN before <=> key \in DOMAIN after
    /\ key \in DOMAIN before => after[key] = before[key]

\* dict[key] is there and is value.
Has(dict, key, value) == key \in DOMAIN dict /\ dict[key] = value

\* name, description and hint of a record.
FieldsOf(result) == [field \in EditableFields |-> result[field]]

SuccessMessage(tab) == tab \o " data saved successfully!"

\* Language selection, image intake and the start and end of a run
\* (SpecIdentify, SpecIntake).

\* dict has no entry for key.
NoEntry(dict, key) == key \notin DOMAIN dict

\* C12: a step that deselects a language L removes L from selectedLanguages,
\* makes English the active tab if L was active, and leaves no entry of L in
\* languageResults, saveStatus, isDatabaseView, isEditing, hasExistingData
\* and originalResults.
C12_DeselectForgets ==
    [][\A L \in languageOptions :
          L \in Range(selectedLanguages) /\ L \notin Range(selectedLanguages') =>
              /\ activeTab' = IF activeTab = L THEN "English" ELSE activeTab
              /\ NoEntry(languageResults', L)
              /\ NoEntry(saveStatus', L)
              /\ NoEntry(isDatabaseView', L)
              /\ NoEntry(isEditing', L)
              /\ NoEntry(hasExistingData', L)
              /\ NoEntry(originalResults', L)]_vars

\* The step in which handleFileChange accepts a file.
FileAccepted == uploads' = uploads + 1

\* C13: right after a file is accepted languageResults is empty, commonData
\* holds empty values and no tab has a save status, a snapshot, an edit-mode
\* flag, a database-view flag or an existing-data flag.
C13_UploadClears ==
    [][FileAccepted =>
          /\ languageResults' = EmptyDict
          /\ commonData' = EmptyCommonData
          /\ saveStatus' = EmptyDict
          /\ originalResults' = EmptyDict
          /\ isEditing' = EmptyDict
          /\ isDatabaseView' = EmptyDict
          /\ hasExistingData' = EmptyDict]_vars

\* The step in which handleIdentify issues the English request of a new run.
RunStarts == identifyRun.pc = "idle" /\ identifyRun'.pc = "english"

\* C14: when a run starts, languageResults holds loading placeholders only
\* and saveStatus, originalResults, isEditing, isDatabaseView and
\* hasExistingData hold nothing; a run that ends on a failed English request
\* ends with these five still empty.
C14_IdentifyClears ==
    [][/\ RunStarts =>
            /\ \A tab \in DOMAIN languageResults' : languageResults'[tab] = LoadingResult
            /\ saveStatus' = EmptyDict
            /\ originalResults' = EmptyDict
            /\ isEditing' = EmptyDict
            /\ isDatabaseView' = EmptyDict
            /\ hasExistingData' = EmptyDict
       /\ identifyRun.pc = "english" /\ identifyRun'.pc = "idle" =>
            /\ saveStatus' = EmptyDict
            /\ originalResults' = EmptyDict]_vars

\* The messages of the two preconditions of handleIdentify.
NoFileError == "Please upload an image first."
NoLanguageError == "Please select at least one language."

\* A click on Identify that ends on one of the two messages (no other
\* counted step of SpecIdentify keeps the selection and the uploads and
\* leaves such a message in error).
IdentifyRefused ==
    /\ events' = events + 1
    /\ selectedLanguages' = selectedLanguages
    /\ uploads' = uploads
    /\ error' \in {NoFileError, NoLanguageError}

\* C15: a run starts only with a file and a non-empty selection; a click on
\* Identify without one of them sets the message of the missing one, starts
\* no run, leaves isLoading false and leaves languageResults, commonData and
\* saveStatus as they were.
C15_IdentifyPreconditions ==
    [][/\ identifyRun.pc = "idle" /\ identifyRun'.pc # "idle" =>
            file # NoFile /\ Len(selectedLanguages) > 0
       /\ isLoading' /\ ~isLoading => file # NoFile /\ Len(selectedLanguages) > 0
       /\ IdentifyRefused =>
            /\ file = NoFile \/ Len(selectedLanguages) = 0
            /\ error' = IF file = NoFile THEN NoFileError ELSE NoLanguageError
            /\ ~isLoading'
            /\ identifyRun' = identifyRun
            /\ UNCHANGED <<languageResults, commonData, saveStatus>>]_vars

\* Identify was clicked with results on the screen and every language
\* deselected: the message is shown and the results are still there.
C15_Witness ==
    /\ error = NoLanguageError
    /\ Len(selectedLanguages) = 0
    /\ file # NoFile
    /\ ~isLoading
    /\ identifyRun = IdleRun
    /\ "English" \in DOMAIN languageResults
    /\ IsOwnRecord(languageResults["English"], "English", file)
    /\ Has(saveStatus, "English", "unsaved")

\* The media types the interface is documented to accept.
DocumentedTypes ==
    {"image/" \o subtype :
        subtype \in {"jpeg", "png", "heic", "heif", "webp", "gif", "bmp", "tiff"}}

\* A pick that ends on the unsupported-type message.
FileRejected ==
    /\ events' = events + 1
    /\ uploads' = uploads
    /\ selectedLanguages' = selectedLanguages
    /\ error' = UnsupportedType

\* C16: only a file of a documented media type is accepted; a pick that is
\* rejected sets the unsupported-type error and leaves file, previewUrl,
\* languageResults and commonData as they were.
C16_RejectsOtherTypes ==
    [][/\ FileAccepted => file'.type \in DocumentedTypes
       /\ FileRejected => UNCHANGED <<file, previewUrl, languageResults, commonData>>]_vars

\* A file was rejected while the results of an accepted heic file are shown.
C16_Witness ==
    /\ error = UnsupportedType
    /\ file.type = "image/heic"
    /\ identifyRun = IdleRun
    /\ "English" \in DOMAIN languageResults
    /\ IsOwnRecord(languageResults["English"], "English", file)
    /\ commonData.object_category = Text("category", "English", file)

\* One of existing_object_name, existing_object_description and
\* existing_object_hint is there and not empty.
ExistingIn(data) ==
    \E key \in {"existing_object_name", "existing_object_description",
                "existing_object_hint"} : Truthy(data, key)

\* The flags of the selected languages when a run completes: from the three
\* fields of each language's own result, false for a failed language.
LanguageFlags ==
    \A L \in Range(identifyRun.languages) :
        /\ L \in DOMAIN languageResults'
        /\ Has(hasExistingData', L, ExistingIn(languageResults'[L]))
        /\ IsFailedRecord(languageResults'[L]) => Has(hasExistingData', L, FALSE)

\* C17 as stated: when a run completes, the flag of every tab, English
\* included, is true exactly if one of the three existing fields of the
\* tab's own response is not empty.
C17_ThreeFields ==
    [][RunCompletes =>
          /\ Has(hasExistingData', "English", ExistingIn(identifyRun.englishData))
          /\ LanguageFlags]_vars

\* C17 amended: as stated for the selected languages; the flag of English is
\* true exactly if one of the three existing fields or existing_object_name_en
\* of the English response is not empty.
C17_ExistingFlags ==
    [][RunCompletes =>
          /\ Has(hasExistingData', "English",
                 \/ ExistingIn(identifyRun.englishData)
                 \/ Truthy(identifyRun.englishData, "existing_object_name_en"))
          /\ LanguageFlags
          /\ DOMAIN hasExistingData' = {"English"} \cup Range(identifyRun.languages)]_vars

\* A run has completed in which the service knew the English base name only,
\* the Hindi request failed and the French one found stored data.
C17_Witness ==
    /\ identifyRun = IdleRun
    /\ ~isLoading
    /\ {"English", "Hindi", "French"} \subseteq DOMAIN languageResults
    /\ Has(hasExistingData, "English", TRUE)
    /\ ~ExistingIn(languageResults["English"])
    /\ commonData.existing_object_name_en_base # ""
    /\ IsFailedRecord(languageResults["Hindi"])
    /\ Has(hasExistingData, "Hindi", FALSE)
    /\ ExistingIn(languageResults["French"])
    /\ Has(hasExistingData, "French", TRUE)

\* The steps of a save: its start, the handling of a 2xx reply, the handling
\* of a failure.
SaveStarts == saveCall.pc = "idle" /\ saveCall'.pc = "fetch"
SaveSucceeds ==
    /\ saveCall.pc = "fetch"
    /\ saveCall'.pc = "idle"
    /\ saveMessage' = SuccessMessage(saveCall.currentTab)
SaveFails ==
    /\ saveCall.pc = "fetch"
    /\ saveCall'.pc = "idle"
    /\ saveMessage' # SuccessMessage(saveCall.currentTab)

\* A keystroke that changes a field of the active tab: the only user event
\* that changes languageResults and is neither an upload, nor the start of a
\* run, nor the cancelling of an edit.
FieldEdit ==
    /\ FieldInputsShown
    /\ events' = events + 1
    /\ languageResults' # languageResults
    /\ file' = file
    /\ isLoading' = isLoading
    /\ isEditing' = isEditing

\* C4: a tab marked saved shows the name, description and hint that its last
\* successful save sent.
C4_SavedMeansSent ==
    \A tab \in DOMAIN saveStatus :
        saveStatus[tab] = "saved" =>
            /\ tab \in DOMAIN lastSaved
            /\ tab \in DOMAIN languageResults
            /\ FieldsOf(languageResults[tab]) = lastSaved[tab]

\* C5: no tab is in edit mode and in database view at the same time.
C5_EditXorDatabaseView ==
    \A tab \in AllTabs : ~(Flag(isEditing, tab) /\ Flag(isDatabaseView, tab))

\* C6: the handling of a 2xx reply to a save of tab T makes the snapshot of T
\* (and, for English, originalCommonData) the values the request carried,
\* marks T saved and takes T out of edit mode; a field edit of a saved tab
\* marks it unsaved again.
C6_SaveSucceeded ==
    [][/\ SaveSucceeds =>
            LET T == saveCall.currentTab
                sent == saveCall.payload
            IN  /\ T \in DOMAIN originalResults'
                /\ FieldsOf(originalResults'[T]) = SentFields(sent)
                /\ T = "English" =>
                      /\ originalCommonData'.object_name_en_base =
                             sent.common_attributes.object_name_en
                      /\ originalCommonData'.object_category =
                             sent.common_attributes.object_category
                      /\ originalCommonData'.tags = sent.common_attributes.tags
                /\ Has(saveStatus', T, "saved")
                /\ Has(isEditing', T, FALSE)
       /\ FieldEdit /\ Has(saveStatus, activeTab, "saved")
              => Has(saveStatus', activeTab, "unsaved")]_vars

\* The save of an edited tab has succeeded: the snapshot holds what was typed
\* and sent, the tab is saved and out of edit mode.
C6_Witness ==
    \E T \in AllTabs :
        /\ saveMessage = SuccessMessage(T)
        /\ T \in DOMAIN lastSaved /\ lastSaved[T].object_name = TypedText
        /\ T \in DOMAIN originalResults /\ originalResults[T].object_name = TypedText
        /\ T \in DOMAIN saveStatus /\ saveStatus[T] = "saved"
        /\ T \in DOMAIN isEditing /\ ~isEditing[T]

\* C7: the handling of a failed save of tab T changes nothing but saveMessage,
\* which becomes an error naming T, and isSaving; an unsaved tab stays unsaved.
C7_SaveFailed ==
    [][SaveFails =>
          LET T == saveCall.currentTab
          IN  /\ UNCHANGED <<languageResults, commonData, originalResults,
                             originalCommonData, saveStatus, isEditing,
                             isDatabaseView>>
              /\ ~isSaving'
              /\ saveMessage' \in {"Error saving " \o T \o ": " \o SaveErrorMessage(failure) :
                                      failure \in Failures}
              /\ Has(saveStatus, T, "unsaved") => Has(saveStatus', T, "unsaved")]_vars

\* The save of an edited Hindi tab failed: the tab is still unsaved, edited
\* and in edit mode.
C7_Witness ==
    /\ saveMessage = "Error saving Hindi: Failed to save to database"
    /\ ~isSaving
    /\ "Hindi" \in DOMAIN saveStatus /\ saveStatus["Hindi"] = "unsaved"
    /\ Flag(isEditing, "Hindi")
    /\ "Hindi" \in DOMAIN languageResults
    /\ languageResults["Hindi"].object_name = TypedText

\* C8: no step of a save of tab T (start, success, failure) changes the
\* saveStatus, languageResults, originalResults or isEditing entry of another
\* tab, whichever tab is active when the reply is handled.
C8_SaveTouchesOwnTab ==
    [][SaveStarts \/ SaveSucceeds \/ SaveFails =>
          LET T == IF saveCall.pc = "fetch" THEN saveCall.currentTab
                   ELSE saveCall'.currentTab
          IN  \A U \in AllTabs \ {T} :
                  /\ EntryUnchanged(saveStatus, saveStatus', U)
                  /\ EntryUnchanged(languageResults, languageResults', U)
                  /\ EntryUnchanged(originalResults, originalResults', U)
                  /\ EntryUnchanged(isEditing, isEditing', U)]_vars

\* Hindi was saved while the English tab, now active, is unsaved, in edit
\* mode and holds an edited category.
C8_Witness ==
    /\ saveMessage = SuccessMessage("Hindi")
    /\ activeTab = "English"
    /\ {"English", "Hindi"} \subseteq DOMAIN saveStatus
    /\ saveStatus["Hindi"] = "saved"
    /\ saveStatus["English"] = "unsaved"
    /\ Flag(isEditing, "English")
    /\ commonData.object_category = TypedText

\* C9: the request of a save started on the English tab carries the current
\* shared metadata, the request of a save started on another tab carries
\* originalCommonData; either way language_attributes has one entry, for the
\* active tab, with its current name, description and hint.
C9_Payload ==
    [][SaveStarts =>
          LET T == activeTab
              sent == saveCall'.payload
              shared == IF T = "English" THEN commonData ELSE originalCommonData
          IN  /\ saveCall'.currentTab = T
              /\ sent.common_attributes.object_name_en = shared.object_name_en_base
              /\ sent.common_attributes.object_category = shared.object_category
              /\ sent.common_attributes.tags = shared.tags
              /\ Len(sent.language_attributes) = 1
              /\ sent.language_attributes[1].language = T
              /\ SentFields(sent) = FieldsOf(languageResults[T])]_vars

\* A save of the Hindi tab is in flight while the English tab holds an
\* unsaved edit of the category: the request carries the original category.
C9_Witness ==
    /\ saveCall.pc = "fetch"
    /\ saveCall.currentTab = "Hindi"
    /\ ~isLoading
    /\ commonData.object_category = TypedText
    /\ originalCommonData.object_category = Text("category", "English", file)
    /\ saveCall.payload.common_attributes.object_category =
           originalCommonData.object_category
    /\ saveCall.payload.language_attributes[1].object_name =
           Text("name", "Hindi", file)

\* C10: a field edit on the active tab T changes one field of
\* languageResults[T] and nothing else of languageResults, marks T unsaved,
\* and leaves the saveStatus of every other tab and the shared metadata as
\* they were.
C10_FieldEdit ==
    [][FieldEdit =>
          LET T == activeTab
              changed == {key \in DOMAIN languageResults[T] :
                             languageResults'[T][key] # languageResults[T][key]}
          IN  /\ DOMAIN languageResults' = DOMAIN languageResults
              /\ DOMAIN languageResults'[T] = DOMAIN languageResults[T]
              /\ Cardinality(changed) = 1
              /\ changed \subseteq EditableFields
              /\ Has(saveStatus', T, "unsaved")
              /\ \A U \in AllTabs \ {T} :
                    /\ EntryUnchanged(languageResults, languageResults', U)
                    /\ EntryUnchanged(saveStatus, saveStatus', U)
              /\ UNCHANGED <<commonData, originalCommonData>>]_vars

\* The hint of the Hindi tab was edited after English had been saved: Hindi
\* is unsaved, English is still saved and untouched.
C10_Witness ==
    /\ {"English", "Hindi"} \subseteq DOMAIN languageResults
    /\ {"English", "Hindi"} \subseteq DOMAIN saveStatus
    /\ languageResults["Hindi"].object_hint = TypedText
    /\ languageResults["Hindi"].object_name = Text("name", "Hindi", file)
    /\ saveStatus["Hindi"] = "unsaved"
    /\ saveStatus["English"] = "saved"
    /\ FieldsOf(languageResults["English"]) = lastSaved["English"]

-----------------------------------------------------------------------------
(* Properties of edit mode and database view (SpecEdit).                   *)

\* A keystroke that changes the category or the tags: the only user event
\* that changes commonData and is neither an upload, nor the start of a run,
\* nor the cancelling of an edit.
CommonEdit ==
    /\ events' = events + 1
    /\ commonData' # commonData
    /\ uploads' = uploads
    /\ isLoading' = isLoading
    /\ isEditing' = isEditing

\* C11: the category and the tags are edited only while English is the active
\* tab, in edit mode and not in database view, and the edit marks English
\* unsaved; with another tab active no click or keystroke on the tab changes
\* commonData.
C11_SingleWriter ==
    [][/\ CommonEdit =>
            /\ activeTab = "English"
            /\ Flag(isEditing, "English")
            /\ ~Flag(isDatabaseView, "English")
            /\ Has(saveStatus', "English", "unsaved")
       /\ /\ events' = events + 1
          /\ activeTab # "English"
          /\ uploads' = uploads
          /\ isLoading' = isLoading
          => commonData' = commonData]_vars

\* The tags were edited on the English tab after English had been saved with
\* other tags: English is unsaved again.
C11_Witness ==
    /\ activeTab = "English"
    /\ Flag(isEditing, "English")
    /\ commonData.tags = TypedTags
    /\ originalCommonData.tags = <<Text("tag", "English", file)>>
    /\ "English" \in DOMAIN lastSaved
    /\ Has(saveStatus, "English", "unsaved")

\* The click on the eye icon: the active tab leaves edit mode by a user event
\* (the reply to a save is no user event).
CancelEdit ==
    /\ events' = events + 1
    /\ Flag(isEditing, activeTab)
    /\ Has(isEditing', activeTab, FALSE)

C19_ToggleNeedsExisting ==
    [][\A tab \in AllTabs :
          ~Flag(isDatabaseView, tab) /\ Flag(isDatabaseView', tab) =>
              tab = activeTab /\ Flag(hasExistingData, tab)]_vars

\* English is in database view; Hindi, whose request failed, is active, has
\* no existing data and is not in database view.
C19_Witness ==
    /\ Flag(isDatabaseView, "English")
    /\ Flag(hasExistingData, "English")
    /\ activeTab = "Hindi"
    /\ "Hindi" \in DOMAIN languageResults
    /\ Truthy(languageResults["Hindi"], "error")
    /\ Has(hasExistingData, "Hindi", FALSE)
    /\ ~Flag(isDatabaseView, "Hindi")

\* C20: while the active tab is in database view no click or keystroke on the
\* tab enters or leaves edit mode, edits a field or starts a save.
C20_DatabaseViewIsReadOnly ==
    [][/\ events' = events + 1
       /\ Flag(isDatabaseView, activeTab)
       /\ uploads' = uploads
       /\ isLoading' = isLoading
       /\ selectedLanguages' = selectedLanguages
       => UNCHANGED <<isEditing, languageResults, commonData, saveStatus,
                      saveCall, isSaving>>]_vars

\* The active tab is in database view with an edited name and its edit-mode
\* flag still set, and no save is in flight.
C20_Witness ==
    /\ Flag(isDatabaseView, activeTab)
    /\ Flag(isEditing, activeTab)
    /\ activeTab \in DOMAIN languageResults
    /\ languageResults[activeTab].object_name = TypedText
    /\ Has(saveStatus, activeTab, "unsaved")
    /\ saveCall = NoSave

-----------------------------------------------------------------------------
(* Properties of the save status, of image resizing and of the requests of *)
(* a run.                                                                  *)

\* C21: when a run completes every tab of the run is unsaved, and a tab
\* becomes saved only in the step that handles the 2xx reply to a save started
\* on that tab.
C21_StatusLifecycle ==
    [][/\ RunCompletes =>
            \A tab \in {"English"} \cup Range(identifyRun.languages) :
                Has(saveStatus', tab, "unsaved")
       /\ \A T \in AllTabs :
            ~Has(saveStatus, T, "saved") /\ Has(saveStatus', T, "saved") =>
                SaveSucceeds /\ saveCall.currentTab = T]_vars

\* English was saved and a later run on the same image has completed: English
\* is unsaved although it shows what was saved.
C21_Witness ==
    /\ identifyRun = IdleRun
    /\ ~isLoading
    /\ saveMessage = Null
    /\ "English" \in DOMAIN lastSaved
    /\ "English" \in DOMAIN languageResults
    /\ IsOwnRecord(languageResults["English"], "English", file)
    /\ FieldsOf(languageResults["English"]) = lastSaved["English"]
    /\ Has(saveStatus, "English", "unsaved")
    /\ Has(saveStatus, "Hindi", "unsaved")

\* round(numerator / denominator), halves rounded up.
Rounded(numerator, denominator) == (2 * numerator + denominator) \div (2 * denominator)

\* C22: the copy resizeImage makes of a picture of width w and height h is
\* 800 wide and round(h * 800 / w) high if w > 800, and has the size of the
\* picture if w <= 800.
C22_ResizeArithmetic ==
    [][\A img \in DOMAIN decoding \ DOMAIN decoding' :
          LET w == decoding[img].width
              h == decoding[img].height
          IN  /\ file'.width <= 800
              /\ w > 800 => file'.width = 800 /\ file'.height = Rounded(h * 800, w)
              /\ w <= 800 => file'.width = w /\ file'.height = h]_vars

\* C23: accepting a file whose picture is then never decoded changes none of
\* file, previewUrl, languageResults, commonData, isDatabaseView and
\* hasExistingData.  Whether the picture will be decoded is not known when
\* the file is accepted, so this is a property of the step that accepts it.
C23_FailedDecodeChangesNothing ==
    [][FileAccepted =>
          UNCHANGED <<file, previewUrl, languageResults, commonData,
                      isDatabaseView, hasExistingData>>]_vars

\* C24: while a run is in progress, the record of a language whose own
\* request has settled is no longer loading, whether or not the requests of
\* the other languages have settled.
C24_AppliedOnArrival ==
    \A L \in DOMAIN identifyRun.settled :
        L \in DOMAIN languageResults => ~Flag(languageResults[L], "isLoading")

\* C25: a run is in progress exactly while isLoading is set; the languages of
\* a run are distinct; a request is issued for English only when no run is in
\* progress, and for another language only when the English response of the
\* run is handled, for a language of the run that has not settled in it.
C25_OneRequestPerKey ==
    /\ [](/\ isLoading <=> identifyRun.pc # "idle"
          /\ Cardinality(Range(identifyRun.languages)) = Len(identifyRun.languages)
          /\ identifyRun.inflight \cap DOMAIN identifyRun.settled = {}
          /\ identifyRun.inflight \subseteq {"English"} \cup Range(identifyRun.languages))
    /\ [][\A L \in AllTabs :
             L \notin identifyRun.inflight /\ L \in identifyRun'.inflight =>
                 /\ identifyRun'.settled = EmptyDict
                 /\ IF L = "English"
                    THEN identifyRun.pc = "idle" /\ ~isLoading
                    ELSE /\ identifyRun.pc = "english"
                         /\ identifyRun'.inflight = Range(identifyRun.languages)]_vars

\* The Hindi request of a run has failed while its French request is still
\* in flight, and the run is still in progress.
C25_Witness ==
    /\ isLoading
    /\ identifyRun.pc = "fanout"
    /\ identifyRun.inflight = {"French"}
    /\ "Hindi" \in DOMAIN identifyRun.settled
    /\ Truthy(identifyRun.settled["Hindi"], "error")

\* C26: if every issued request settles, a run in progress is followed by a
\* state in which isLoading is false and no record is loading.
C26_RunEnds ==
    identifyRun.pc # "idle" ~>
        /\ ~isLoading
        /\ \A tab \in DOMAIN languageResults : ~Flag(languageResults[tab], "isLoading")

-----------------------------------------------------------------------------
(* Properties that relate the state to the current image and selection.    *)

\* A text is empty or what the service returns for the image now loaded.
OfCurrentImage(text, kind, language) == text \in {"", Text(kind, language, file)}

\* C27: the content of every record, of the shared metadata and of the
\* snapshots comes from a response to a request that carried the image now
\* loaded.
C27_CurrentImage ==
    /\ \A tab \in DOMAIN languageResults :
          OfCurrentImage(languageResults[tab].object_name, "name", tab)
    /\ OfCurrentImage(commonData.object_category, "category", "English")
    /\ \A tab \in DOMAIN originalResults :
          OfCurrentImage(originalResults[tab].object_name, "name", tab)
    /\ OfCurrentImage(originalCommonData.object_category, "category", "English")

\* C28: every key of languageResults and of saveStatus is English or a
\* selected language.
C28_KeysAreTabs ==
    DOMAIN languageResults \cup DOMAIN saveStatus \subseteq availableTabs

\* C29: a tab in database view has existing data, so that its database icon
\* is rendered.
C29_ViewHasToggle ==
    \A tab \in AllTabs : Flag(isDatabaseView, tab) => Flag(hasExistingData, tab)

\* What C30 compares of a record: name, description, hint, error and the
\* existing fields, as far as the record has them.
ComparedKeys ==
    EditableFields \cup {"error", "existing_object_name",
                         "existing_object_description", "existing_object_hint"}

Compared(result) == [key \in DOMAIN result \cap ComparedKeys |-> result[key]]

\* No field of the record holds typed text: nothing was typed into the tab
\* since the record was made, so nothing since it entered edit mode.
Unedited(result) == \A field \in EditableFields : result[field] # TypedText

\* C30: entering edit mode changes no record, and cancelling edit mode on a
\* tab into which nothing was typed leaves the name, description, hint, error
\* and existing fields of its record as they were.
C30_EditRoundTrip ==
    [][/\ /\ events' = events + 1
          /\ ~Flag(isEditing, activeTab)
          /\ Flag(isEditing', activeTab)
          => languageResults' = languageResults
       /\ CancelEdit /\ Unedited(languageResults[activeTab]) =>
            /\ activeTab \in DOMAIN languageResults'
            /\ Compared(languageResults'[activeTab]) = Compared(languageResults[activeTab])]_vars

-----------------------------------------------------------------------------
(* Properties of the save requests and of the selection.                   *)

\* C31: the record that a save request in flight was built from was neither
\* loading nor failed: no update request is sent for a tab whose record is
\* still loading or carries an error.
C31_SavesIdentified ==
    saveCall.pc = "fetch" =>
        /\ ~Flag(saveCall.languageResult, "isLoading")
        /\ ~IsFailedRecord(saveCall.languageResult)

\* C32: the active tab is English or a selected language, and the selection
\* holds neither English nor a language twice.
C32_ActiveTabIsATab ==
    /\ activeTab \in availableTabs
    /\ "English" \notin Range(selectedLanguages)
    /\ Cardinality(Range(selectedLanguages)) = Len(selectedLanguages)

\* French was selected and made the active tab, and Hindi, which the run in
\* progress asked for, was deselected since.
C32_Witness ==
    /\ activeTab = "French"
    /\ selectedLanguages = <<"French">>
    /\ "Hindi" \in Range(identifyRun.languages)

\* C33: an update request is in flight exactly while isSaving is true; a
\* request is sent only when none is in flight, the one in flight stays the
\* same until it settles, and whenever it settles, with success or failure,
\* isSaving is false again; on a network that answers, isSaving always
\* becomes false again.
C33_OneSaveInFlight ==
    /\ [](isSaving <=> saveCall.pc = "fetch")
    /\ [][/\ SaveStarts => ~isSaving /\ isSaving'
          /\ saveCall.pc = "fetch" /\ saveCall'.pc = "fetch" => saveCall' = saveCall
          /\ saveCall.pc = "fetch" /\ saveCall'.pc = "idle" => ~isSaving']_vars
    /\ (isSaving ~> ~isSaving)

\* A save succeeded, a later one failed, and none is in flight.
C33_Witness ==
    /\ ~isSaving
    /\ saveCall.pc = "idle"
    /\ \E tab \in AllTabs : Has(saveStatus, tab, "saved")
    /\ \E tab \in AllTabs : saveMessage = "Error saving " \o tab \o ": Failed to save to database"

-----------------------------------------------------------------------------
(* Properties of the single-language App of part_000 (Spec_part_000).      *)

\* C34: when a run of handleIdentify of part_000 completes, isLoading is
\* false and exactly one of result and error is set; a request is sent only
\* with a file; and a click on the identify button with no file sets the
\* error and sends no request.
C34_ResultXorError ==
    [][/\ part_000.run.pc = "fetch" /\ part_000'.run.pc = "idle" =>
            /\ ~part_000'.isLoading
            /\ (part_000'.result # NoResult) # (part_000'.error # Null)
       /\ part_000'.run.pc = "fetch" => part_000'.run.image # NoFile
       /\ /\ events' = events + 1
          /\ part_000.file = NoFile
          /\ part_000'.file = NoFile
          /\ part_000'.language = part_000.language
          /\ part_000'.error # UnsupportedType
          => /\ part_000'.error = "Please upload an image first."
             /\ part_000'.run = part_000.run
             /\ part_000'.result = part_000.result
             /\ ~part_000'.isLoading]_vars

\* A run for an uploaded image has completed on a reply that was not ok: the
\* error is set and the result is not.
C34_Witness ==
    /\ part_000.run.pc = "idle"
    /\ part_000.file # NoFile
    /\ ~part_000.isLoading
    /\ part_000.result = NoResult
    /\ part_000.error = "Unexpected response: 400 - Bad Request: Invalid image"

====
